---- MODULE Spec2Model ----
(***************************************************************************)
(* Token lifecycle of nexus-auth-token: the "tokens" table and the RPC     *)
(* handlers login, otp, create, consume, list, info, clear and the sweep.  *)
(* Two revisions of the service are covered: main.go (consume deletes the  *)
(* row; list, info, clear and the daily sweep exist) and the earlier       *)
(* revision (consume sets ttl to 0; no list, info, clear or sweep).        *)
(*                                                                         *)
(* Strings that the code compares or matches (token ids, user paths) are   *)
(* sequences of characters.  Id characters are numbers ordered like their  *)
(* code points; user characters are one-letter strings.                    *)
(*                                                                         *)
(* A ReQL write over a selection (Between/Filter followed by Update or     *)
(* Delete) is carried out by the driver's server as a read of the matching *)
(* rows followed by a per-document atomic replace keyed by primary key:    *)
(* the replace function sees the document as it is at write time, the      *)
(* filters are not evaluated again.  r.Now() is fixed when the query       *)
(* starts.  ReturnChanges lists only the documents the write modified.     *)
(***************************************************************************)
EXTENDS Integers, Sequences, FiniteSets, TLC

\* ---------------------------------------------------------------- bounds
MaxTime == 1
MaxTokens == 2
MaxLogins == 2

\* ------------------------------------------------------ program constants
UFFFF == 65535
OtpLifetime == 3600
OtpTtl == 1
DefaultTtl == 1
NoTime == -1

\* -------------------------------------------------------------- universes
\* Generated keys have one length and share their first character; presented
\* strings are the keys, their proper prefix and the empty string.
Keys == {<<1, i>> : i \in 1..MaxTokens}
Presented == Keys \cup {<<>>, <<1>>}
Users == {<<"t">>, <<"t", "s">>}
Owners == {<<"t">>, <<"t", ".", "s">>, <<"t", "s">>, <<"s">>}
Paths == {<<>>, <<"t">>, <<"t", ".", "s">>, <<"s">>}
Times == 0..MaxTime
TtlParams == {-1, 0, 1, 2}
TagOutcomes == {"error", "absent", "false", "true"}
Procs == 1..MaxLogins

\* ------------------------------------------------- ReQL terms, as computed
RECURSIVE StrLt(_, _)
StrLt(a, b) ==
    IF b = <<>> THEN FALSE
    ELSE IF a = <<>> THEN TRUE
    ELSE IF Head(a) < Head(b) THEN TRUE
    ELSE IF Head(a) > Head(b) THEN FALSE
    ELSE StrLt(Tail(a), Tail(b))

\* Between(lo, hi) on the primary key: left bound closed, right bound open.
Between(key, lo, hi) == ~StrLt(key, lo) /\ StrLt(key, hi)

\* t.During(start, end) with the left bound closed.
During(t, start, end, rightClosed) ==
    ~(start > t \/ t > end \/ (t = end /\ ~rightClosed))

LoginRange(token) == [lo |-> token, hi |-> token \o <<UFFFF>>]

LoginDeadlineOk(row, t) == During(row.deadline, t, row.deadline, TRUE)

LoginFilterMutNoTtl(row, t) == LoginDeadlineOk(row, t)
LoginFilter(row, t) == row.ttl # 0 /\ LoginDeadlineOk(row, t)

LoginUpdateMutGeq(row, t) ==
    IF row.ttl >= 0
    THEN [row EXCEPT !.ttl = row.ttl - 1, !.lastSeen = t]
    ELSE [row EXCEPT !.ttl = row.ttl, !.lastSeen = t]
LoginUpdateMutAlwaysDec(row, t) == [row EXCEPT !.ttl = row.ttl - 1, !.lastSeen = t]
LoginUpdate(row, t) ==
    IF row.ttl > 0
    THEN [row EXCEPT !.ttl = row.ttl - 1, !.lastSeen = t]
    ELSE [row EXCEPT !.ttl = row.ttl, !.lastSeen = t]

VARIABLES
    variant,    \* "delete": main.go; "update": the earlier revision
    now,        \* the database server's clock
    tokens,     \* the "tokens" table: primary key -> document
    used,       \* primary keys generated so far
    lg,         \* login calls with a write in flight
    sw,         \* deleteExpiredTokens in flight
    resp,       \* the reply produced by the step that led here, if any
    consumed,   \* history: keys on which consume has answered without error
    credit      \* history: uses granted to the tokens present initially, minus
                \* the successful logins that presented their exact id
vars == <<variant, now, tokens, used, lg, sw, resp, consumed, credit>>

Rows == DOMAIN tokens
Null == [null |-> TRUE]
NoResp == [op |-> "none", code |-> "none"]
IdleLogin == [pc |-> "idle", token |-> <<>>, t |-> 0, pending |-> {},
              changes |-> <<>>, after |-> FALSE, valid0 |-> FALSE]
IdleSweep == [pc |-> "idle", by |-> "none", pending |-> {}, count |-> 0,
              alone |-> FALSE, before |-> <<>>]

Init ==
    /\ variant \in {"delete", "update"}
    /\ now = 0
    /\ tokens = <<>>
    /\ used = {}
    /\ lg = [p \in Procs |-> IdleLogin]
    /\ sw = IdleSweep
    /\ resp = NoResp
    /\ consumed = {}
    /\ credit = <<>>

\* History of a sweep in flight: another step has happened during it.
Disturbed ==
    IF sw.pc = "idle" THEN sw ELSE [sw EXCEPT !.alone = FALSE, !.before = <<>>]

Restrict(f, S) == [k \in S |-> f[k]]

\* The clock of the database server, which r.Now() reads.
Tick ==
    /\ now < MaxTime
    /\ now' = now + 1
    /\ resp' = NoResp
    /\ sw' = Disturbed
    /\ UNCHANGED <<variant, tokens, used, lg, consumed, credit>>

\* Insert without a primary key: the server generates a fresh UUID.
Insert(key, row) ==
    /\ key \in Keys \ used
    /\ Cardinality(used) < MaxTokens
    /\ tokens' = [k \in Rows \cup {key} |-> IF k = key THEN row ELSE tokens[k]]
    /\ used' = used \cup {key}
    /\ credit' = credit

otpHandler(user, key, ok) ==
    /\ IF ok
       THEN /\ Insert(key, [user |-> user, ttl |-> OtpTtl,
                            deadline |-> now + OtpLifetime, lastSeen |-> NoTime])
            /\ resp' = [op |-> "otp", code |-> "OK", key |-> key, user |-> user]
       ELSE /\ resp' = [op |-> "otp", code |-> "IssueError", user |-> user]
            /\ UNCHANGED <<tokens, used, credit>>
    /\ sw' = Disturbed
    /\ UNCHANGED <<variant, now, lg, consumed>>

DeadlineBeforeMutLeq(deadline, t) == deadline <= t
DeadlineBefore(deadline, t) == deadline < t

CreateTtl(ttl) == IF ttl = 0 THEN DefaultTtl ELSE ttl

\* The outcome of create's checks; "insert" when every check passed.
CreateChecks(parsable, deadline, timeOk, t, imp, tags) ==
    IF ~parsable THEN "DeadlineParseError"
    ELSE IF ~timeOk THEN "Internal"
    ELSE IF DeadlineBefore(deadline, t) THEN "DeadlineInPast"
    ELSE IF imp # <<>> /\ tags = "error" THEN "IssueError"
    ELSE IF imp # <<>> /\ tags = "absent" THEN "Internal"
    ELSE IF imp # <<>> /\ tags # "true" THEN "PermissionDenied"
    ELSE "insert"

CreateOwner(user, imp) == IF imp # <<>> THEN imp ELSE user

createHandler(user, ttl, parsable, deadline, imp, tags, timeOk, key, ok) ==
    LET args == [user |-> user, ttl |-> ttl, parsable |-> parsable,
                 deadline |-> deadline, imp |-> imp, tags |-> tags,
                 timeOk |-> timeOk, t |-> now]
        chk == CreateChecks(parsable, deadline, timeOk, now, imp, tags)
    IN  /\ IF chk # "insert"
           THEN /\ resp' = [op |-> "create", code |-> chk, args |-> args]
                /\ UNCHANGED <<tokens, used, credit>>
           ELSE IF ok
           THEN /\ Insert(key, [user |-> CreateOwner(user, imp), ttl |-> CreateTtl(ttl),
                                deadline |-> deadline, lastSeen |-> NoTime])
                /\ resp' = [op |-> "create", code |-> "OK", args |-> args, key |-> key]
           ELSE /\ resp' = [op |-> "create", code |-> "IssueError", args |-> args]
                /\ UNCHANGED <<tokens, used, credit>>
        /\ sw' = Disturbed
        /\ UNCHANGED <<variant, now, lg, consumed>>

\* login: the read of the selection (Between, Filter, Filter).
LoginSelect(token, t) ==
    {k \in Rows : /\ Between(k, LoginRange(token).lo, LoginRange(token).hi)
                  /\ LoginFilter(tokens[k], t)}

\* The handler's answer once the write has returned.
LoginAnswer(changes) ==
    IF Len(changes) # 1
    THEN [code |-> "InvalidToken", val |-> Null]
    ELSE [code |-> "OK", val |-> changes[1].new_val]

LoginReply(call, dbErr) ==
    [op |-> "login", token |-> call.token, t |-> call.t, after |-> call.after,
     valid0 |-> call.valid0, dbErr |-> dbErr, changes |-> call.changes,
     code |-> IF dbErr THEN "Internal" ELSE LoginAnswer(call.changes).code,
     val |-> IF dbErr THEN Null ELSE LoginAnswer(call.changes).val]

\* History: a successful login that presented exactly the key it was answered with.
Spend(reply) ==
    IF /\ reply.code = "OK"
       /\ reply.changes[1].key = reply.token
       /\ reply.token \in DOMAIN credit
    THEN [credit EXCEPT ![reply.token] = @ - 1]
    ELSE credit

\* History: the token with exactly this id is valid at time t.
ExactValid(token, t) ==
    /\ token \in Rows
    /\ tokens[token].ttl # 0
    /\ t <= tokens[token].deadline

loginStart(p, token, ok) ==
    /\ lg[p].pc = "idle"
    /\ \A q \in Procs : q < p => lg[q].pc # "idle"
    /\ LET call == [IdleLogin EXCEPT !.token = token, !.t = now,
                                     !.after = token \in consumed,
                                     !.valid0 = ExactValid(token, now)]
           sel == LoginSelect(token, now)
       IN  IF ok /\ sel # {}
           THEN /\ lg' = [lg EXCEPT ![p] = [call EXCEPT !.pc = "write", !.pending = sel]]
                /\ resp' = NoResp
           ELSE /\ lg' = lg
                /\ resp' = LoginReply(call, ~ok)
    /\ sw' = Disturbed
    /\ UNCHANGED <<variant, now, tokens, used, consumed, credit>>

\* login: the atomic update of one selected document.
loginWrite(p, k) ==
    /\ lg[p].pc = "write"
    /\ k \in lg[p].pending
    /\ LET old == IF k \in Rows THEN tokens[k] ELSE Null
           new == IF k \in Rows THEN LoginUpdate(old, lg[p].t) ELSE Null
           call == [lg[p] EXCEPT !.pending = @ \ {k},
                                 !.changes = IF new = old THEN @
                                             ELSE Append(@, [key |-> k, old_val |-> old,
                                                             new_val |-> new])]
       IN  /\ tokens' = IF k \in Rows THEN [tokens EXCEPT ![k] = new] ELSE tokens
           /\ IF call.pending = {}
              THEN /\ lg' = [lg EXCEPT ![p] = IdleLogin]
                   /\ resp' = LoginReply(call, FALSE)
                   /\ credit' = Spend(LoginReply(call, FALSE))
              ELSE /\ lg' = [lg EXCEPT ![p] = call]
                   /\ resp' = NoResp
                   /\ credit' = credit
    /\ sw' = Disturbed
    /\ UNCHANGED <<variant, now, used, consumed>>

\* consume: Get(token) followed by Delete (main.go) or Update({ttl: 0}) (earlier
\* revision), atomic on the one document; the changes it returns.
ConsumeWriteMutRenew(row) == IF variant = "delete" THEN Null ELSE [row EXCEPT !.ttl = DefaultTtl]
ConsumeWrite(row) == IF variant = "delete" THEN Null ELSE [row EXCEPT !.ttl = 0]

ConsumeAnswer(changes) ==
    IF Len(changes) # 1
    THEN [code |-> "InvalidToken", val |-> Null]
    ELSE [code |-> "OK", val |-> changes[1].new_val]

consumeHandler(token, isString, ok) ==
    LET hit == isString /\ ok /\ token \in Rows
        old == IF hit THEN tokens[token] ELSE Null
        new == IF hit THEN ConsumeWrite(old) ELSE Null
        changes == IF new = old THEN <<>>
                   ELSE <<[key |-> token, old_val |-> old, new_val |-> new]>>
        ans == ConsumeAnswer(changes)
    IN  /\ tokens' = IF new = old THEN tokens
                     ELSE IF new = Null THEN Restrict(tokens, Rows \ {token})
                     ELSE [tokens EXCEPT ![token] = new]
        /\ credit' = credit
        /\ resp' = [op |-> "consume", token |-> token, isString |-> isString,
                    dbErr |-> ~ok, code |-> ans.code, val |-> ans.val,
                    pre |-> IF token \in Rows THEN tokens[token] ELSE Null,
                    after |-> token \in consumed]
        /\ consumed' = IF ans.code = "OK" THEN consumed \cup {token} ELSE consumed
        /\ sw' = Disturbed
        /\ UNCHANGED <<variant, now, used, lg>>

\* deleteExpiredTokens: the two bulk deletes, each a read of the matching rows
\* followed by the delete of those rows by key.
SweepDeadMutLeq(row) == row.ttl <= 0
SweepDeadMutLt(row) == row.ttl < 0
SweepDead(row) == row.ttl = 0

SweepExpiredMutLeq(row, t) == row.deadline <= t
SweepExpired(row, t) == row.deadline < t

SweepReply(by, code, count) == [op |-> by, code |-> code, count |-> count]

\* A failed delete query: deleteExpiredTokens returns at once, s being the run
\* so far.
SweepAbortMutGoOn(s) == [s EXCEPT !.pc = IF s.pc = "idle" THEN "read2" ELSE "del2"]
SweepAbort(s) == IdleSweep

\* clearHandler (by = "clear") or a tick of the 24-hour ticker (by = "timer").
sweepStart(by, ok) ==
    /\ variant = "delete"
    /\ sw.pc = "idle"
    /\ IF ok
       THEN /\ sw' = [pc |-> "del1", by |-> by, count |-> 0, alone |-> TRUE,
                      pending |-> {k \in Rows : SweepDead(tokens[k])},
                      before |-> tokens]
            /\ resp' = NoResp
       ELSE /\ sw' = SweepAbort([IdleSweep EXCEPT !.by = by])
            /\ resp' = SweepReply(by, "Internal", 0)
                            @@ [phase |-> 1, alone |-> TRUE, before |-> tokens]
    /\ UNCHANGED <<variant, now, tokens, used, lg, consumed, credit>>

sweepDelete1 ==
    /\ sw.pc = "del1"
    /\ tokens' = Restrict(tokens, Rows \ sw.pending)
    /\ credit' = credit
    /\ sw' = [sw EXCEPT !.pc = "read2", !.pending = {},
                        !.count = @ + Cardinality(sw.pending \cap Rows)]
    /\ resp' = NoResp
    /\ UNCHANGED <<variant, now, used, lg, consumed>>

sweepRead2(ok) ==
    /\ sw.pc = "read2"
    /\ IF ok
       THEN /\ sw' = [sw EXCEPT !.pc = "del2",
                         !.pending = {k \in Rows : SweepExpired(tokens[k], now)}]
            /\ resp' = NoResp
       ELSE /\ sw' = SweepAbort(sw)
            /\ resp' = SweepReply(sw.by, "Internal", 0)
                            @@ [phase |-> 2, alone |-> sw.alone, before |-> sw.before]
    /\ UNCHANGED <<variant, now, tokens, used, lg, consumed, credit>>

sweepDelete2 ==
    /\ sw.pc = "del2"
    /\ tokens' = Restrict(tokens, Rows \ sw.pending)
    /\ credit' = credit
    /\ sw' = IdleSweep
    /\ resp' = SweepReply(sw.by, "OK", sw.count + Cardinality(sw.pending \cap Rows))
                    @@ [alone |-> sw.alone, before |-> sw.before]
    /\ UNCHANGED <<variant, now, used, lg, consumed>>

\* list: the regular expression "^" + path + "($|.)" matched against the owner.
\* A "." of the pattern matches any character, every other character itself.
PatternChar(p, c) == p = "." \/ p = c

ListTail(owner, n) == Len(owner) = n \/ (Len(owner) > n /\ PatternChar(".", owner[n + 1]))

ListMatch(owner, path) ==
    /\ Len(owner) >= Len(path)
    /\ \A i \in 1..Len(path) : PatternChar(path[i], owner[i])
    /\ ListTail(owner, Len(path))

ListAllowedMutAnyTags(tags) == tags.admin \/ ~tags.admin
ListAllowed(tags) == tags.admin \/ tags.list

listHandler(user, path, tagsOk, tags, ok) ==
    LET req == [op |-> "list", user |-> user, path |-> path, tagsOk |-> tagsOk,
                tags |-> tags, dbErr |-> ~ok]
        sel == IF path # <<>>
               THEN {k \in Rows : ListMatch(tokens[k].user, path)}
               ELSE {k \in Rows : tokens[k].user = user}
    IN  /\ variant = "delete"
        /\ resp' = IF path # <<>> /\ ~tagsOk
                   THEN req @@ [code |-> "PermissionDenied", rows |-> {}]
                   ELSE IF path # <<>> /\ ~ListAllowed(tags)
                   THEN req @@ [code |-> "OK", rows |-> {}]
                   ELSE IF ~ok
                   THEN req @@ [code |-> "Internal", rows |-> {}]
                   ELSE req @@ [code |-> "OK", rows |-> sel]
        /\ sw' = Disturbed
        /\ UNCHANGED <<variant, now, tokens, used, lg, consumed, credit>>

\* info: GetAll(ids...) followed by one permission lookup for every fetched
\* token whose owner is not the requester; look[k] is what the lookup made for
\* token k gives: "error", or the tags it resolves to.
InfoOutcomes == {"error", "none", "admin", "list"}

InfoAllowedMutAdminOnly(outcome) == outcome = "admin"
InfoAllowed(outcome) == outcome = "admin" \/ outcome = "list"

infoHandler(user, ids, look, ok) ==
    LET fetched == ids \cap Rows
        refused == {k \in fetched : tokens[k].user # user /\ ~InfoAllowed(look[k])}
        req == [op |-> "info", user |-> user, ids |-> ids, look |-> look, dbErr |-> ~ok]
    IN  /\ variant = "delete"
        /\ resp' = IF ~ok
                   THEN req @@ [code |-> "Internal", rows |-> {}]
                   ELSE IF refused # {}
                   THEN req @@ [code |-> "InvalidParams", rows |-> {}]
                   ELSE req @@ [code |-> "OK", rows |-> fetched]
        /\ sw' = Disturbed
        /\ UNCHANGED <<variant, now, tokens, used, lg, consumed, credit>>

\* ------------------------------------------------------------ lifecycle
\* One requester, no impersonation; one login call in flight at a time.
LifeUser == <<"t">>
LifeProcs == {1}
LifeTtls == {-1, 0, 2}
LifeDeadlines == {0}

Next ==
    \/ Tick
    \/ \E k \in Keys : otpHandler(LifeUser, k, TRUE)
    \/ \E ttl \in LifeTtls, d \in LifeDeadlines, k \in Keys :
            createHandler(LifeUser, ttl, TRUE, d, <<>>, "true", TRUE, k, TRUE)
    \/ \E p \in LifeProcs :
          \/ \E token \in Presented : loginStart(p, token, TRUE)
          \/ \E token \in Keys : loginStart(p, token, FALSE)
    \/ \E p \in LifeProcs, k \in Keys : loginWrite(p, k)
    \/ \E token \in Presented : consumeHandler(token, TRUE, TRUE)
    \/ \E token \in Keys : consumeHandler(token, TRUE, FALSE)
    \/ consumeHandler(<<>>, FALSE, TRUE)
    \/ \E by \in {"clear", "timer"}, ok \in BOOLEAN : sweepStart(by, ok)
    \/ sweepDelete1
    \/ \E ok \in BOOLEAN : sweepRead2(ok)
    \/ sweepDelete2

Spec == Init /\ [][Next]_vars

\* ------------------------------------------- logins racing on one token
\* One token, created with a positive or an unlimited ttl and a deadline that
\* does not pass; every login call presents a key.
RaceKey == <<1, 1>>
RaceTtls == {-1, 1, 2}

InitRace ==
    /\ variant \in {"delete", "update"}
    /\ now = 0
    /\ \E ttl \in RaceTtls :
          /\ tokens = [k \in {RaceKey} |->
                         [user |-> LifeUser, ttl |-> ttl, deadline |-> MaxTime,
                          lastSeen |-> NoTime]]
          /\ credit = IF ttl > 0 THEN [k \in {RaceKey} |-> ttl] ELSE <<>>
    /\ used = {RaceKey}
    /\ lg = [p \in Procs |-> IdleLogin]
    /\ sw = IdleSweep
    /\ resp = NoResp
    /\ consumed = {}

NextRace ==
    \/ Tick
    \/ \E p \in Procs, token \in Keys : loginStart(p, token, TRUE)
    \/ \E p \in Procs, k \in Keys : loginWrite(p, k)

SpecRace == InitRace /\ [][NextRace]_vars

\* ------------------------------- logins racing with consume and the sweep
\* The token of InitRace and one created later, under concurrent login calls,
\* consume, and (main.go) the sweep.
NextMix ==
    \/ Tick
    \/ \E ttl \in LifeTtls, d \in Times, k \in Keys :
          createHandler(LifeUser, ttl, TRUE, d, <<>>, "true", TRUE, k, TRUE)
    \/ \E p \in Procs, token \in Keys : loginStart(p, token, TRUE)
    \/ \E p \in Procs, k \in Keys : loginWrite(p, k)
    \/ \E token \in Keys : consumeHandler(token, TRUE, TRUE)
    \/ \E by \in {"clear", "timer"} : sweepStart(by, TRUE)
    \/ sweepDelete1
    \/ sweepRead2(TRUE)
    \/ sweepDelete2

SpecMix == InitRace /\ [][NextMix]_vars

\* ------------------------------------------------------- the daily sweep
\* main.go with tokens being issued and used while the 24-hour ticker keeps
\* firing: a sweep that is due starts, and a delete query that is retried
\* often enough succeeds.
InitLive == Init /\ variant = "delete"

NextLive ==
    \/ Tick
    \/ \E k \in Keys : otpHandler(LifeUser, k, TRUE)
    \/ \E ttl \in LifeTtls, d \in Times, k \in Keys :
          createHandler(LifeUser, ttl, TRUE, d, <<>>, "true", TRUE, k, TRUE)
    \/ \E p \in LifeProcs, token \in Keys : loginStart(p, token, TRUE)
    \/ \E p \in LifeProcs, k \in Keys : loginWrite(p, k)
    \/ \E ok \in BOOLEAN : sweepStart("timer", ok)
    \/ sweepDelete1
    \/ \E ok \in BOOLEAN : sweepRead2(ok)
    \/ sweepDelete2

FairLive ==
    /\ WF_vars(sweepStart("timer", TRUE))
    /\ WF_vars(sweepDelete1)
    /\ SF_vars(sweepRead2(TRUE))
    /\ WF_vars(sweepDelete2)

SpecLive == InitLive /\ [][NextLive]_vars /\ FairLive

\* --------------------------------------------------------------- issuance
\* create and otp with every input, while fewer than IssueCap keys exist.
IssueCap == 1

NextIssue ==
    \/ Tick
    \/ /\ Cardinality(used) < IssueCap
       /\ \/ \E u \in Users, k \in Keys, ok \in BOOLEAN : otpHandler(u, k, ok)
          \/ \E u \in Users, ttl \in TtlParams, parsable \in BOOLEAN, d \in Times,
                imp \in Users \cup {<<>>}, tags \in TagOutcomes, timeOk \in BOOLEAN,
                k \in Keys, ok \in BOOLEAN :
                  createHandler(u, ttl, parsable, d, imp, tags, timeOk, k, ok)

SpecIssue == Init /\ [][NextIssue]_vars

\* ------------------------------------------------------------------ query
\* list and info over a table of tokens whose owners are drawn from Owners.
InitQuery ==
    /\ variant = "delete"
    /\ now = 0
    /\ \E S \in SUBSET Keys : \E f \in [S -> Owners] :
          tokens = [k \in S |-> [user |-> f[k], ttl |-> DefaultTtl,
                                 deadline |-> MaxTime, lastSeen |-> NoTime]]
    /\ used = DOMAIN tokens
    /\ lg = [p \in Procs |-> IdleLogin]
    /\ sw = IdleSweep
    /\ resp = NoResp
    /\ consumed = {}
    /\ credit = <<>>

TagSets == [admin : BOOLEAN, list : BOOLEAN]

NextQuery ==
    \/ \E u \in Owners, path \in Paths, tagsOk \in BOOLEAN, tags \in TagSets, ok \in BOOLEAN :
          listHandler(u, path, tagsOk, tags, ok)
    \/ \E u \in Owners, ids \in SUBSET Keys, look \in [Keys -> InfoOutcomes], ok \in BOOLEAN :
          infoHandler(u, ids, look, ok)

SpecQuery == InitQuery /\ [][NextQuery]_vars

\* ================================================================= claims
\* A call whose storage query itself errors answers Internal (or, for consume,
\* InvalidToken, the error being ignored); the statements below about what a
\* handler answers are about calls whose query ran (dbErr false, timeOk true).

\* C1 (checked under SpecRace): a token created with ttl n > 0 yields at most n
\* successful logins presenting its id, however the login calls interleave.
C1_AtMostNLogins == \A k \in DOMAIN credit : credit[k] >= 0

\* C2: a login whose query ran succeeds exactly when a token with exactly the
\* presented id exists, its ttl is not 0 and the query's time is not after its
\* deadline; otherwise it answers InvalidToken.
C2_LoginIffValid ==
    (resp.op = "login" /\ ~resp.dbErr) =>
        /\ resp.code = "OK" <=> resp.valid0
        /\ resp.code \in {"OK", "InvalidToken"}

\* C3: a successful login answers with the one document it changed; a positive
\* ttl is lowered by exactly 1, a negative ttl is kept, lastSeen becomes the
\* query's time, nothing else changes, and the answer is the updated document.
C3_LoginTransform ==
    (resp.op = "login" /\ resp.code = "OK") =>
        LET c == resp.changes[1]
        IN  /\ Len(resp.changes) = 1
            /\ c.old_val.ttl > 0 => c.new_val.ttl = c.old_val.ttl - 1
            /\ c.old_val.ttl < 0 => c.new_val.ttl = c.old_val.ttl
            /\ c.new_val.lastSeen = resp.t
            /\ c.new_val.user = c.old_val.user
            /\ c.new_val.deadline = c.old_val.deadline
            /\ resp.val = c.new_val

C3_Witness ==
    /\ resp.op = "login"
    /\ resp.code = "OK"
    /\ resp.changes[1].old_val.ttl = 2
    /\ resp.val.ttl = 1

\* C4: once consume(id) has answered without error, every consume(id) made
\* later and every login(id) started later answers InvalidToken, in both
\* revisions (row deleted, or ttl set to 0).
C4_ConsumeIrreversible ==
    /\ (resp.op = "login" /\ resp.after /\ ~resp.dbErr) => resp.code = "InvalidToken"
    /\ (resp.op = "consume" /\ resp.after) => resp.code = "InvalidToken"

C4_Witness ==
    /\ variant = "update"
    /\ resp.op = "login"
    /\ resp.after
    /\ ~resp.dbErr
    /\ resp.token \in Rows

\* C5: consume on a live token (row present, ttl not 0) succeeds and answers
\* the row as it was before the delete (main.go) or as it is after the update
\* (earlier revision); consume on an id with no row answers InvalidToken.
C5_ConsumeSnapshot ==
    (resp.op = "consume" /\ resp.isString /\ ~resp.dbErr) =>
        /\ (resp.pre # Null /\ resp.pre.ttl # 0) =>
              /\ resp.code = "OK"
              /\ resp.val = IF variant = "delete" THEN resp.pre
                            ELSE [resp.pre EXCEPT !.ttl = 0]
        /\ resp.pre = Null => resp.code = "InvalidToken"

\* C6: every row a step of the sweep removes has ttl = 0 or deadline < now at
\* the moment of that step, whatever login, create, otp and consume steps
\* come between the sweep's reads and its deletes.
C6_SweepSparesValid ==
    [][((sw.pc = "del1" /\ sw'.pc = "read2") \/ (sw.pc = "del2" /\ sw'.pc = "idle"))
          => \A k \in Rows \ DOMAIN tokens' :
                tokens[k].ttl = 0 \/ tokens[k].deadline < now]_vars

C6_Witness ==
    /\ resp.op \in {"clear", "timer"}
    /\ resp.code = "OK"
    /\ resp.count > 0
    /\ ~resp.alone
    /\ Rows # {}

\* C7: when clear runs with no other step in between and no storage failure,
\* afterwards no row has ttl = 0 or deadline < now, every row that was valid
\* before is present and unchanged, and the count answered is the number of
\* rows removed.
C7_ClearAlone ==
    (resp.op = "clear" /\ resp.code = "OK" /\ resp.alone) =>
        /\ \A k \in Rows : tokens[k].ttl # 0 /\ ~(tokens[k].deadline < now)
        /\ \A k \in DOMAIN resp.before :
              (resp.before[k].ttl # 0 /\ now <= resp.before[k].deadline)
                  => (k \in Rows /\ tokens[k] = resp.before[k])
        /\ resp.count = Cardinality(DOMAIN resp.before \ Rows)

C7_Witness ==
    /\ resp.op = "clear"
    /\ resp.code = "OK"
    /\ resp.alone
    /\ resp.count = 1
    /\ Cardinality(DOMAIN resp.before) = 2
    /\ Cardinality(Rows) = 1

\* C8 (checked under SpecIssue): a create whose deadline parses and is before
\* the server time it read answers DeadlineInPast and inserts nothing, for
\* every ttl and every user_to_impersonate; a deadline equal to that time is
\* not rejected as past.
C8_DeadlineInPast ==
    [][(resp'.op = "create" /\ resp'.args.parsable /\ resp'.args.timeOk) =>
          /\ resp'.args.deadline < resp'.args.t =>
                (resp'.code = "DeadlineInPast" /\ tokens' = tokens)
          /\ resp'.args.deadline = resp'.args.t => resp'.code # "DeadlineInPast"]_vars

C8_Witness ==
    /\ resp.op = "create"
    /\ resp.code = "DeadlineInPast"
    /\ resp.args.ttl = -1
    /\ resp.args.imp # <<>>
    /\ resp.args.tags = "true"

\* C9 (checked under SpecIssue): a create that passed the deadline checks and
\* names a user to impersonate succeeds only with @admin true, and then the
\* token's owner is that user; with tags that do not have @admin true it answers
\* PermissionDenied and inserts nothing; with no user to impersonate the owner
\* is the requester.
C9_Impersonation ==
    [][(/\ resp'.op = "create"
        /\ resp'.args.parsable
        /\ resp'.args.timeOk
        /\ ~(resp'.args.deadline < resp'.args.t)) =>
          /\ (resp'.args.imp # <<>> /\ resp'.code = "OK") =>
                (resp'.args.tags = "true" /\ tokens'[resp'.key].user = resp'.args.imp)
          /\ (resp'.args.imp # <<>> /\ resp'.args.tags \in {"absent", "false"}) =>
                (resp'.code = "PermissionDenied" /\ tokens' = tokens)
          /\ (resp'.args.imp = <<>> /\ resp'.code = "OK") =>
                tokens'[resp'.key].user = resp'.args.user]_vars

\* C10 (checked under SpecQuery): list with a path, for a requester with @admin
\* or the list tag, answers exactly the tokens whose owner is the path or the
\* path followed by "." and more.
Descendant(owner, path) ==
    /\ Len(owner) > Len(path)
    /\ SubSeq(owner, 1, Len(path)) = path
    /\ owner[Len(path) + 1] = "."

C10_ListByPath ==
    (/\ resp.op = "list"
     /\ resp.path # <<>>
     /\ resp.tagsOk
     /\ resp.tags.admin \/ resp.tags.list
     /\ ~resp.dbErr) =>
        /\ resp.code = "OK"
        /\ resp.rows = {k \in Rows : \/ tokens[k].user = resp.path
                                     \/ Descendant(tokens[k].user, resp.path)}

\* C11 (checked under SpecQuery): an info call whose query ran answers
\* InvalidParams with no token when some fetched token is owned by another user
\* and the lookup for it errors or gives neither @admin nor the list tag;
\* otherwise it answers every row whose id is among the ids, ids with no row
\* being left out without error.
C11_InfoAllOrNothing ==
    (resp.op = "info" /\ ~resp.dbErr) =>
        IF \E k \in resp.ids \cap Rows :
              /\ tokens[k].user # resp.user
              /\ resp.look[k] \in {"error", "none"}
        THEN resp.code = "InvalidParams" /\ resp.rows = {}
        ELSE resp.code = "OK" /\ resp.rows = resp.ids \cap Rows

C11_Witness ==
    /\ resp.op = "info"
    /\ resp.code = "OK"
    /\ resp.ids = Keys
    /\ Cardinality(resp.rows) = 1
    /\ \E k \in resp.rows : tokens[k].user # resp.user /\ resp.look[k] = "list"

\* C12 (checked under SpecQuery): list with a path, when the lookup resolves to
\* tags with neither @admin nor the list tag, answers an empty result without
\* error, whatever rows the table holds, the requester's own included.
C12_ListNoPermission ==
    (/\ resp.op = "list"
     /\ resp.path # <<>>
     /\ resp.tagsOk
     /\ ~resp.tags.admin
     /\ ~resp.tags.list) =>
        /\ resp.code = "OK"
        /\ resp.rows = {}

C12_Witness ==
    /\ resp.op = "list"
    /\ resp.path = resp.user
    /\ resp.tagsOk
    /\ ~resp.tags.admin
    /\ ~resp.tags.list
    /\ ~resp.dbErr
    /\ resp.code = "OK"
    /\ \E k \in Rows : tokens[k].user = resp.user

\* C13 (checked under SpecMix): no step gives a token uses: a step that changes
\* the ttl of a row either lowers a positive ttl by 1 or sets it to 0; a row
\* with ttl 0 keeps ttl 0 while it exists, and a key that has left the table
\* does not come back.
C13_TtlNeverRaised ==
    [][/\ \A k \in Rows \cap DOMAIN tokens' :
            /\ tokens'[k].ttl # tokens[k].ttl =>
                  \/ tokens[k].ttl > 0 /\ tokens'[k].ttl = tokens[k].ttl - 1
                  \/ tokens'[k].ttl = 0
            /\ tokens[k].ttl = 0 => tokens'[k].ttl = 0
       /\ \A k \in used \ Rows : k \notin DOMAIN tokens']_vars

C13_Witness ==
    /\ variant = "update"
    /\ resp.op = "consume"
    /\ resp.code = "OK"
    /\ resp.pre.ttl = 2
    /\ resp.val.ttl = 0
    /\ \E p \in Procs : lg[p].pc = "write" /\ resp.token \in lg[p].pending

\* C14 (checked under SpecMix): no step takes a ttl that is not negative to a
\* negative one, and no step of a login changes a negative ttl, however the
\* login calls interleave.
C14_LimitedUnlimited ==
    [][\A k \in Rows \cap DOMAIN tokens' :
          /\ tokens[k].ttl >= 0 => tokens'[k].ttl >= 0
          /\ (tokens[k].ttl < 0 /\ lg' # lg) => tokens'[k].ttl = tokens[k].ttl]_vars

C14_Witness ==
    /\ resp.op = "login"
    /\ resp.code = "OK"
    /\ Len(resp.changes) = 1
    /\ resp.changes[1].old_val.ttl = 0
    /\ resp.changes[1].new_val.ttl = 0

\* C15: a step of login(id) changes no row whose key differs from the presented
\* id, and a login answered OK presented the key of the row it answers with,
\* for every presented string, the empty string and a proper prefix of a key
\* included.
C15_LoginExactId ==
    [][/\ \A p \in Procs :
            (lg[p].pc = "write" /\ lg'[p] # lg[p]) =>
                \A k \in Rows \cap DOMAIN tokens' :
                    tokens'[k] # tokens[k] => k = lg[p].token
       /\ (resp'.op = "login" /\ resp'.code = "OK") =>
              resp'.token = resp'.changes[1].key]_vars

\* C16: a login whose update changed more than one row answers Internal.
C16_ManyChangedInternal ==
    (resp.op = "login" /\ Len(resp.changes) > 1) => resp.code = "Internal"

\* C17: a login that answers InvalidToken has changed no row.
C17_InvalidTokenNoChange ==
    (resp.op = "login" /\ resp.code = "InvalidToken") => Len(resp.changes) = 0

\* C18: a sweep whose first delete query fails answers Internal, deletes
\* nothing and does not go on to the second query; a sweep whose second delete
\* query fails answers Internal, and when it ran alone the rows with ttl = 0
\* are gone and every other row, expired ones included, is as it was.
C18_SweepFailure ==
    [][(resp'.op \in {"clear", "timer"} /\ resp'.code # "OK") =>
          /\ resp'.code = "Internal"
          /\ tokens' = tokens
          /\ sw'.pc = "idle"
          /\ resp'.phase = 1 => sw.pc = "idle"
          /\ resp'.phase = 2 => sw.pc = "read2"
          /\ (resp'.phase = 2 /\ resp'.alone) =>
                /\ DOMAIN tokens' = {k \in DOMAIN resp'.before : resp'.before[k].ttl # 0}
                /\ \A k \in DOMAIN tokens' : tokens'[k] = resp'.before[k]]_vars

C18_Witness ==
    /\ resp.op = "clear"
    /\ resp.code = "Internal"
    /\ resp.phase = 2
    /\ resp.alone
    /\ Cardinality(DOMAIN resp.before) = 2
    /\ Cardinality(Rows) = 1
    /\ \E k \in Rows : tokens[k].deadline < now

\* C19 (checked under SpecLive): a row that has ttl = 0 or deadline < now is
\* eventually removed from the table, given that the ticker keeps starting
\* sweeps and delete queries eventually succeed; a row a sweep missed because
\* a login made it dead after the sweep's read is removed by a later sweep.
C19_EventuallyRemoved ==
    \A k \in Keys :
        (k \in Rows /\ (tokens[k].ttl = 0 \/ tokens[k].deadline < now)) ~> (k \notin Rows)

C19_Witness ==
    /\ sw.pc = "read2"
    /\ sw.by = "timer"
    /\ resp.op = "login"
    /\ resp.code = "OK"
    /\ resp.val.ttl = 0
    /\ resp.val.deadline >= now
    /\ resp.token \in Rows
====
